---- MODULE Spec2Model ----
(***************************************************************************)
(* Map member calls of the uwasa expression engine: the single-pass        *)
(* NeoCompiler (parseMemberCallExpression), the AST-walking VMCompiler     *)
(* (case *MemberCallExpression) and the map opcodes of the two VM loops.   *)
(***************************************************************************)
EXTENDS Integers, Sequences, FiniteSets, TLC

\* ------------------------------------------------------------------ bounds
MaxArgs == 2
MaxStmts == 2
MaxRun == 1

\* ------------------------------------------------------------- Value (Go)
\* Value{Type, Num, Str, Ptr}; Num is a uint64 kept as four 16-bit limbs,
\* most significant first; Ptr is a heap reference, 0 for nil.
Limb == 2^16

ZeroNum == <<0, 0, 0, 0>>

Value(t, num, str, ptr) == [Type |-> t, Num |-> num, Str |-> str, Ptr |-> ptr]

ZeroValue == Value("ValNil", ZeroNum, "", 0)

StringValue(s) == Value("ValString", ZeroNum, s, 0)

\* uint64(v) of an int64 v, two's complement, for |v| < 2^16
Uint64OfInt64(v) == IF v >= 0 THEN <<0, 0, 0, v % Limb>> ELSE <<Limb - 1, Limb - 1, Limb - 1, (Limb + v) % Limb>>

IntValue(v) == Value("ValInt", Uint64OfInt64(v), "", 0)

boolToUint64(b) == IF b THEN <<0, 0, 0, 1>> ELSE ZeroNum

\* ------------------------------------------------------------ token stream
Token(t, lit) == [Type |-> t, Literal |-> lit]

EOFToken == Token("EOF", "")

TokAt(toks, i) == IF i \in 1..Len(toks) THEN toks[i] ELSE EOFToken

curToken(c) == TokAt(c.toks, c.pos)

peekToken(c) == TokAt(c.toks, c.pos + 1)

nextToken(c) == [c EXCEPT !.pos = c.pos + 1]

\* ------------------------------------------------- emitter, constant pool
Instruction(op, arg) == [Op |-> op, Arg |-> arg]

NoErr == [msg |-> "", arg |-> ""]

Err(msg, arg) == [msg |-> msg, arg |-> arg]

NewCompiler(toks) == [toks |-> toks, pos |-> 1, instructions |-> <<>>, constants |-> <<>>, err |-> NoErr]

emit(c, op, arg) == [c EXCEPT !.instructions = Append(c.instructions, Instruction(op, arg))]

\* appends; the new slot's index (0-based, as the VM dereferences it)
addConstant(c, v) == [c |-> [c EXCEPT !.constants = Append(c.constants, v)], idx |-> Len(c.constants)]

emitPush(c, v) == LET a == addConstant(c, v) IN emit(a.c, "NeoOpPush", a.idx)

\* ------------------------------------------------------- compilationValue
compilationValue(isConst, val) == [isConst |-> isConst, val |-> val]

ConstCV(v) == compilationValue(TRUE, v)

StackCV == compilationValue(FALSE, ZeroValue)

Ret(c, cv) == [c |-> c, val |-> cv]

Fail(c, msg, arg) == Ret([c EXCEPT !.err = Err(msg, arg)], compilationValue(FALSE, ZeroValue))

Failed(r) == r.c.err # NoErr

ErrSubject == "member call subject must be an identifier"

ParseInt(lit) == CASE lit = "1" -> 1 [] lit = "2" -> 2 [] OTHER -> 0

RECURSIVE parseExpression(_)
RECURSIVE parseMemberCallExpression(_, _)
RECURSIVE argLoop(_)

\* ------------------------------------------ NeoCompiler.parseExpression
\* prefix position: a literal stays an unmaterialized constant, an
\* identifier is loaded at once by NeoOpGetGlobal (operand: the pool slot
\* holding its name)
parsePrefix(c) ==
  LET t == curToken(c) IN
  CASE t.Type = "STRING" -> Ret(c, ConstCV(StringValue(t.Literal)))
    [] t.Type = "NUMBER" -> Ret(c, ConstCV(IntValue(ParseInt(t.Literal))))
    [] t.Type = "IDENT" -> LET a == addConstant(c, StringValue(t.Literal)) IN Ret(emit(a.c, "NeoOpGetGlobal", a.idx), StackCV)
    [] OTHER -> Fail(c, "unexpected token", t.Type)

\* infix position: '.' binds a member call to the expression parsed so far
RECURSIVE infixLoop(_)
infixLoop(r) ==
  IF Failed(r) \/ peekToken(r.c).Type # "DOT" THEN r
  ELSE infixLoop(parseMemberCallExpression(nextToken(r.c), r.val))

parseExpression(c) == infixLoop(parsePrefix(c))

\* ------------------------- NeoCompiler.parseMemberCallExpression, by part
ArgState(c, numArgs, firstArgConst, firstArgVal) == [c |-> c, numArgs |-> numArgs, firstArgConst |-> firstArgConst, firstArgVal |-> firstArgVal]

\* for c.peekToken.Type == TokenComma { ... }
argLoop(a) ==
  IF peekToken(a.c).Type # "COMMA" THEN a
  ELSE LET c1 == IF a.firstArgConst THEN emitPush(a.c, a.firstArgVal) ELSE a.c
           r == parseExpression(nextToken(nextToken(c1)))
       IN IF Failed(r) THEN ArgState(r.c, a.numArgs, FALSE, a.firstArgVal)
          ELSE LET c2 == IF r.val.isConst THEN emitPush(r.c, r.val.val) ELSE r.c
               IN argLoop(ArgState(c2, a.numArgs + 1, FALSE, a.firstArgVal))

\* numArgs := 0 ... the argument list up to, not including, ')'
parseArguments(c) ==
  IF peekToken(c).Type = "RPAREN" THEN ArgState(c, 0, FALSE, ZeroValue)
  ELSE LET r == parseExpression(nextToken(c))
       IN IF Failed(r) THEN ArgState(r.c, 0, FALSE, ZeroValue)
          ELSE argLoop(ArgState(r.c, 1, r.val.isConst, r.val.val))

\* variant: the constant key is always pushed, the fast path never taken
caseGet_NoFastPath(c, numArgs, firstArgConst, firstArgVal) ==
  IF numArgs # 1 THEN Fail(c, "get expects 1 argument", "")
  ELSE Ret(emit(IF firstArgConst THEN emitPush(c, firstArgVal) ELSE c, "NeoOpMapGet", 0), StackCV)

\* variant: the fast path taken for a constant of any type
caseGet_AnyConst(c, numArgs, firstArgConst, firstArgVal) ==
  IF numArgs # 1 THEN Fail(c, "get expects 1 argument", "")
  ELSE IF firstArgConst
       THEN LET a == addConstant(c, firstArgVal) IN Ret(emit(a.c, "NeoOpMapGetConst", a.idx), StackCV)
       ELSE Ret(emit(c, "NeoOpMapGet", 0), StackCV)

\* case "get"
caseGet(c, numArgs, firstArgConst, firstArgVal) ==
  IF numArgs # 1 THEN Fail(c, "get expects 1 argument", "")
  ELSE IF firstArgConst /\ firstArgVal.Type = "ValString"
       THEN LET a == addConstant(c, firstArgVal) IN Ret(emit(a.c, "NeoOpMapGetConst", a.idx), StackCV)
       ELSE Ret(emit(IF firstArgConst THEN emitPush(c, firstArgVal) ELSE c, "NeoOpMapGet", 0), StackCV)

\* variant: the argument count of set is not checked
caseSet_NoArity(c, numArgs, firstArgConst, firstArgVal) ==
  Ret(emit(IF firstArgConst THEN emitPush(c, firstArgVal) ELSE c, "NeoOpMapSet", 0), StackCV)

\* case "set"
caseSet(c, numArgs, firstArgConst, firstArgVal) ==
  LET c1 == IF firstArgConst THEN emitPush(c, firstArgVal) ELSE c
  IN IF numArgs # 2 THEN Fail(c1, "set expects 2 arguments", "")
     ELSE Ret(emit(c1, "NeoOpMapSet", 0), StackCV)

\* variant: the pending constant of has is not flushed
caseHas_NoFlush(c, numArgs, firstArgConst, firstArgVal) ==
  IF numArgs # 1 THEN Fail(c, "has expects 1 argument", "")
  ELSE Ret(emit(c, "NeoOpMapHas", 0), StackCV)

\* case "has"
caseHas(c, numArgs, firstArgConst, firstArgVal) ==
  LET c1 == IF firstArgConst THEN emitPush(c, firstArgVal) ELSE c
  IN IF numArgs # 1 THEN Fail(c1, "has expects 1 argument", "")
     ELSE Ret(emit(c1, "NeoOpMapHas", 0), StackCV)

\* case "del"
caseDel(c, numArgs, firstArgConst, firstArgVal) ==
  LET c1 == IF firstArgConst THEN emitPush(c, firstArgVal) ELSE c
  IN IF numArgs # 1 THEN Fail(c1, "del expects 1 argument", "")
     ELSE Ret(emit(c1, "NeoOpMapDel", 0), StackCV)

\* switch method { ... }
methodSwitch(c, method, numArgs, firstArgConst, firstArgVal) ==
  CASE method = "get" -> caseGet(c, numArgs, firstArgConst, firstArgVal)
    [] method = "set" -> caseSet(c, numArgs, firstArgConst, firstArgVal)
    [] method = "has" -> caseHas(c, numArgs, firstArgConst, firstArgVal)
    [] method = "del" -> caseDel(c, numArgs, firstArgConst, firstArgVal)
    [] OTHER -> Fail(c, "unknown map method: %s", method)

\* variant: the last instruction is not inspected
subjectOK_ConstOnly(c, left) == ~left.isConst

\* if left.isConst ... ; lastInst.Op != NeoOpGetGlobal ...
subjectOK(c, left) ==
  /\ ~left.isConst
  /\ c.instructions[Len(c.instructions)].Op = "NeoOpGetGlobal"

\* from c.nextToken() (cur is the method name) to the method switch
memberCallBody(c0) ==
  LET c1 == nextToken(c0) IN
  IF curToken(c1).Type # "IDENT" THEN Fail(c1, "expected method name after '.'", "")
  ELSE IF peekToken(c1).Type # "LPAREN" THEN Fail(c1, "expected '(' after method name", "")
  ELSE LET method == curToken(c1).Literal
           a == parseArguments(nextToken(c1))
       IN IF a.c.err # NoErr THEN Ret(a.c, compilationValue(FALSE, ZeroValue))
          ELSE IF peekToken(a.c).Type # "RPAREN" THEN Fail(a.c, "expected ')', got %s", peekToken(a.c).Type)
          ELSE methodSwitch(nextToken(a.c), method, a.numArgs, a.firstArgConst, a.firstArgVal)

parseMemberCallExpression(c, left) ==
  IF ~subjectOK(c, left) THEN Fail(c, ErrSubject, "") ELSE memberCallBody(c)

\* ------------------------------------------------------------------- AST
\* Node kinds: Identifier, StringLiteral, NumberLiteral,
\* MemberCallExpression{Object, Method, Arguments}
Node(kind, lit, obj, args) == [kind |-> kind, lit |-> lit, obj |-> obj, args |-> args]

Ident(name) == Node("Identifier", name, <<>>, <<>>)

StrLit(s) == Node("StringLiteral", s, <<>>, <<>>)

NumLit(s) == Node("NumberLiteral", s, <<>>, <<>>)

Call(obj, method, args) == Node("MemberCallExpression", method, <<obj>>, args)

NoNode == Node("None", "", <<>>, <<>>)

\* the token stream the lexer issues for an expression
RECURSIVE Toks(_)
RECURSIVE ArgToks(_)
ArgToks(args) ==
  IF args = <<>> THEN <<>>
  ELSE IF Len(args) = 1 THEN Toks(args[1])
  ELSE Toks(args[1]) \o <<Token("COMMA", ",")>> \o ArgToks(Tail(args))

Toks(n) ==
  CASE n.kind = "Identifier" -> <<Token("IDENT", n.lit)>>
    [] n.kind = "StringLiteral" -> <<Token("STRING", n.lit)>>
    [] n.kind = "NumberLiteral" -> <<Token("NUMBER", n.lit)>>
    [] n.kind = "MemberCallExpression" ->
         Toks(n.obj[1]) \o <<Token("DOT", "."), Token("IDENT", n.lit), Token("LPAREN", "(")>>
           \o ArgToks(n.args) \o <<Token("RPAREN", ")")>>
    [] OTHER -> <<>>

\* ------------------------------------- VMCompiler.walk (AST to bytecode)
NewVMCompiler == [instructions |-> <<>>, constants |-> <<>>, err |-> NoErr]

RECURSIVE walk(_, _)
RECURSIVE walkAll(_, _)
walkAll(c, args) ==
  IF args = <<>> \/ c.err # NoErr THEN c ELSE walkAll(walk(c, args[1]), Tail(args))

\* if n.Method == "get" && len(n.Arguments) == 1 { if lit, ok := ...(*StringLiteral)
isFastGet(n) ==
  /\ n.lit = "get"
  /\ Len(n.args) = 1
  /\ n.args[1].kind = "StringLiteral"

\* err := c.walk(n.Object); c.emit(OpMapGetConst, c.addConstant(Value{ValString, lit.Value}))
walkFastGet(c, n) ==
  LET c1 == walk(c, n.obj[1]) IN
  IF c1.err # NoErr THEN c1
  ELSE LET a == addConstant(c1, Value("ValString", ZeroNum, n.args[1].lit, 0))
       IN emit(a.c, "OpMapGetConst", a.idx)

\* the path after the fast-path test: object, arguments in order, opcode
walkGenericCall(c, n) ==
  LET c1 == walkAll(walk(c, n.obj[1]), n.args)
      arity == IF n.lit = "set" THEN 2 ELSE 1
  IN IF n.obj[1].kind # "Identifier" THEN [c EXCEPT !.err = Err(ErrSubject, "")]
     ELSE IF c1.err # NoErr THEN c1
     ELSE IF n.lit \notin {"get", "set", "has", "del"} THEN [c1 EXCEPT !.err = Err("unknown map method: %s", n.lit)]
     ELSE IF Len(n.args) # arity THEN [c1 EXCEPT !.err = Err("wrong number of arguments", n.lit)]
     ELSE emit(c1, CASE n.lit = "get" -> "OpMapGet" [] n.lit = "set" -> "OpMapSet"
                     [] n.lit = "has" -> "OpMapHas" [] OTHER -> "OpMapDel", 0)

walk(c, n) ==
  CASE n.kind = "MemberCallExpression" -> IF isFastGet(n) THEN walkFastGet(c, n) ELSE walkGenericCall(c, n)
    [] n.kind = "Identifier" -> LET a == addConstant(c, StringValue(n.lit)) IN emit(a.c, "OpGetGlobal", a.idx)
    [] n.kind = "StringLiteral" -> LET a == addConstant(c, StringValue(n.lit)) IN emit(a.c, "OpPush", a.idx)
    [] n.kind = "NumberLiteral" -> LET a == addConstant(c, IntValue(ParseInt(n.lit))) IN emit(a.c, "OpPush", a.idx)
    [] OTHER -> [c EXCEPT !.err = Err("unknown node", n.kind)]

\* ----------------------------------------------------- compiled sources
RECURSIVE SeqsUpTo(_, _)
SeqsUpTo(S, n) == IF n = 0 THEN {<<>>} ELSE LET R == SeqsUpTo(S, n - 1) IN R \cup {Append(q, x) : q \in {r \in R : Len(r) = n - 1}, x \in S}

Methods == {"get", "set", "has", "del", "foo"}

NestedGet == Call(Ident("m"), "get", <<StrLit("J")>>)

Atoms == {StrLit("K"), NumLit("1"), Ident("k")}

ArgLists == SeqsUpTo(Atoms, MaxArgs) \cup {<<NestedGet>>, <<StrLit("K"), NestedGet>>}

\* calls on the bound variable m
ValidSubjectCalls == {Call(Ident("m"), meth, args) : meth \in Methods, args \in ArgLists}

\* calls on a literal or on a call result
OtherSubjects == {StrLit("s"), NumLit("2"), Call(Ident("m"), "get", <<StrLit("K")>>), Call(Ident("m"), "get", <<Ident("k")>>)}

OtherSubjectCalls == {Call(o, meth, <<StrLit("K")>>) : o \in OtherSubjects, meth \in {"get", "has"}}

\* token streams the grammar rejects
Malformed ==
  { <<Token("IDENT", "m"), Token("DOT", "."), Token("NUMBER", "1")>>,
    <<Token("IDENT", "m"), Token("DOT", "."), Token("IDENT", "get"), Token("STRING", "K"), Token("RPAREN", ")")>>,
    <<Token("IDENT", "m"), Token("DOT", "."), Token("IDENT", "get"), Token("LPAREN", "("), Token("STRING", "K")>>,
    <<Token("IDENT", "m"), Token("DOT", "."), Token("IDENT", "set"), Token("LPAREN", "("), Token("STRING", "K"), Token("COMMA", ","), Token("RPAREN", ")")>>,
    <<Token("IDENT", "m"), Token("DOT", "."), Token("IDENT", "get"), Token("LPAREN", "("), Token("COMMA", ","), Token("RPAREN", ")")>> }

Sources == {[ast |-> n, toks |-> Toks(n)] : n \in ValidSubjectCalls \cup OtherSubjectCalls} \cup {[ast |-> NoNode, toks |-> t] : t \in Malformed}

\* ------------------------------------------------- runtime values (any)
\* a value stored in a map[string]any, by dynamic type; a float64 is
\* (-1)^neg * (1 + frac/16) * 2^exp
AnyVal(go, i, f, str, b) == [go |-> go, i |-> i, f |-> f, s |-> str, b |-> b]

ZeroFloat == [neg |-> FALSE, exp |-> 0, frac |-> 0]

NilAny == AnyVal("nil", 0, ZeroFloat, "", FALSE)

AnyInt64(v) == AnyVal("int64", v, ZeroFloat, "", FALSE)

AnyInt(v) == AnyVal("int", v, ZeroFloat, "", FALSE)

AnyFloat64(neg, exp, frac) == AnyVal("float64", 0, [neg |-> neg, exp |-> exp, frac |-> frac], "", FALSE)

AnyString(str) == AnyVal("string", 0, ZeroFloat, str, FALSE)

AnyBool(b) == AnyVal("bool", 0, ZeroFloat, "", b)

AnyOther == AnyVal("other", 0, ZeroFloat, "", FALSE)

\* math.Float64bits: sign, 11-bit biased exponent, top 4 fraction bits
Float64bits(f) == <<(IF f.neg THEN 2^15 ELSE 0) + (f.exp + 1023) * 16 + f.frac, 0, 0, 0>>

\* m[key] of a Go map: the nil interface when the key is missing
MapIndex(m, key) == IF key \in DOMAIN m THEN m[key] ELSE NilAny

\* FromInterface, the fallback conversion of any other dynamic type
FromInterface(v) == Value("ValOther", ZeroNum, "", 0)

\* a handler's outcome: the stack and heap it leaves, or the error
Outcome(stack, heap, err) == [stack |-> stack, heap |-> heap, err |-> err]

ErrNotMap == "MGETC: not a map"

SetTop(stack, v) == [stack EXCEPT ![Len(stack)] = v]

\* ------------------------------------ neoex_vm: case NeoOpMapGetConst
\* (*Value)(unsafe.Add(unsafe.Pointer(pConsts), uintptr(inst.Arg)*valSize)).Str:
\* inside the pool the slot's Str, outside it whatever memory holds
NeoConstStr(consts, arg, anyStr) == IF arg \in 0..(Len(consts) - 1) THEN {consts[arg + 1].Str} ELSE anyStr

\* variant: a stored bool loses its value
NeoMapGetConstValue_BoolZero(val) ==
  CASE val.go = "int64" -> Value("ValInt", Uint64OfInt64(val.i), "", 0)
    [] val.go = "int" -> Value("ValInt", Uint64OfInt64(val.i), "", 0)
    [] val.go = "float64" -> Value("ValFloat", Float64bits(val.f), "", 0)
    [] val.go = "string" -> Value("ValString", ZeroNum, val.s, 0)
    [] val.go = "bool" -> Value("ValBool", ZeroNum, "", 0)
    [] val.go = "nil" -> Value("ValNil", ZeroNum, "", 0)
    [] OTHER -> FromInterface(val)

NeoMapGetConstValue(val) ==
  CASE val.go = "int64" -> Value("ValInt", Uint64OfInt64(val.i), "", 0)
    [] val.go = "int" -> Value("ValInt", Uint64OfInt64(val.i), "", 0)
    [] val.go = "float64" -> Value("ValFloat", Float64bits(val.f), "", 0)
    [] val.go = "string" -> Value("ValString", ZeroNum, val.s, 0)
    [] val.go = "bool" -> Value("ValBool", boolToUint64(val.b), "", 0)
    [] val.go = "nil" -> Value("ValNil", ZeroNum, "", 0)
    [] OTHER -> FromInterface(val)

\* variant: a missing key is an error
NeoMapGetConst_MissingFails(stack, heap, consts, arg, anyStr) ==
  LET obj == stack[Len(stack)] IN
  IF obj.Type # "ValMap" THEN {Outcome(stack, heap, Err(ErrNotMap, ""))}
  ELSE {IF key \in DOMAIN heap[obj.Ptr]
        THEN Outcome(SetTop(stack, NeoMapGetConstValue(MapIndex(heap[obj.Ptr], key))), heap, NoErr)
        ELSE Outcome(stack, heap, Err("MGETC: no such key", "")) : key \in NeoConstStr(consts, arg, anyStr)}

\* variant: the type check is missing, a value that is no map reads as Nil
NeoMapGetConst_NoTypeCheck(stack, heap, consts, arg, anyStr) ==
  LET obj == stack[Len(stack)] IN
  IF obj.Type # "ValMap" THEN {Outcome(SetTop(stack, ZeroValue), heap, NoErr)}
  ELSE {Outcome(SetTop(stack, NeoMapGetConstValue(MapIndex(heap[obj.Ptr], key))), heap, NoErr) : key \in NeoConstStr(consts, arg, anyStr)}

NeoMapGetConst(stack, heap, consts, arg, anyStr) ==
  LET obj == stack[Len(stack)] IN
  IF obj.Type # "ValMap" THEN {Outcome(stack, heap, Err(ErrNotMap, ""))}
  ELSE {Outcome(SetTop(stack, NeoMapGetConstValue(MapIndex(heap[obj.Ptr], key))), heap, NoErr) : key \in NeoConstStr(consts, arg, anyStr)}

\* ----------------------------------------------- vm: case OpMapGetConst
\* consts[inst.Arg].Str: an index outside the pool panics
OpMapGetConstValue(val) ==
  CASE val.go = "int64" -> Value("ValInt", Uint64OfInt64(val.i), "", 0)
    [] val.go = "int" -> Value("ValInt", Uint64OfInt64(val.i), "", 0)
    [] val.go = "float64" -> Value("ValFloat", Float64bits(val.f), "", 0)
    [] val.go = "string" -> Value("ValString", ZeroNum, val.s, 0)
    [] val.go = "bool" -> Value("ValBool", boolToUint64(val.b), "", 0)
    [] val.go = "nil" -> Value("ValNil", ZeroNum, "", 0)
    [] OTHER -> FromInterface(val)

OpMapGetConst(stack, heap, consts, arg) ==
  LET obj == stack[Len(stack)] IN
  IF obj.Type # "ValMap" THEN {Outcome(stack, heap, Err(ErrNotMap, ""))}
  ELSE IF arg \notin 0..(Len(consts) - 1) THEN {Outcome(stack, heap, Err("panic: index out of range", ""))}
  ELSE {Outcome(SetTop(stack, OpMapGetConstValue(MapIndex(heap[obj.Ptr], consts[arg + 1].Str))), heap, NoErr)}

\* --------------------------------------- the other opcodes of both loops
\* tagged form of a looked-up value, as in the constant-key opcode
ToValue(val) ==
  CASE val.go \in {"int64", "int"} -> Value("ValInt", Uint64OfInt64(val.i), "", 0)
    [] val.go = "float64" -> Value("ValFloat", Float64bits(val.f), "", 0)
    [] val.go = "string" -> Value("ValString", ZeroNum, val.s, 0)
    [] val.go = "bool" -> Value("ValBool", boolToUint64(val.b), "", 0)
    [] val.go = "nil" -> Value("ValNil", ZeroNum, "", 0)
    [] OTHER -> FromInterface(val)

\* the dynamic value a map stores for a tagged Value
Int64OfUint64(num) == IF num[1] = 0 THEN num[4] ELSE num[4] - Limb

FloatOfBits(num) == [neg |-> num[1] >= 2^15, exp |-> ((num[1] % 2^15) \div 16) - 1023, frac |-> num[1] % 16]

ToInterface(v) ==
  CASE v.Type = "ValInt" -> AnyInt64(Int64OfUint64(v.Num))
    [] v.Type = "ValFloat" -> AnyVal("float64", 0, FloatOfBits(v.Num), "", FALSE)
    [] v.Type = "ValString" -> AnyString(v.Str)
    [] v.Type = "ValBool" -> AnyBool(v.Num[4] = 1)
    [] v.Type = "ValNil" -> NilAny
    [] OTHER -> AnyOther

Push(stack, v) == Append(stack, v)

Pop(stack, n) == SubSeq(stack, 1, Len(stack) - n)

\* a key that is not a String: the handler either rejects it or reads its
\* Str field
KeyOutcomes(key, stack, heap, ok) ==
  IF key.Type = "ValString" THEN {ok} ELSE {ok, Outcome(stack, heap, Err("map key is not a string", ""))}

\* GENERIC-GET: key on top, the map beneath it
MapGet(stack, heap) ==
  LET key == stack[Len(stack)]
      obj == stack[Len(stack) - 1]
  IN IF obj.Type # "ValMap" THEN {Outcome(stack, heap, Err("not a map", ""))}
     ELSE KeyOutcomes(key, stack, heap, Outcome(Append(Pop(stack, 2), ToValue(MapIndex(heap[obj.Ptr], key.Str))), heap, NoErr))

\* GENERIC-HAS
MapHas(stack, heap) ==
  LET key == stack[Len(stack)]
      obj == stack[Len(stack) - 1]
  IN IF obj.Type # "ValMap" THEN {Outcome(stack, heap, Err("not a map", ""))}
     ELSE KeyOutcomes(key, stack, heap, Outcome(Append(Pop(stack, 2), Value("ValBool", boolToUint64(key.Str \in DOMAIN heap[obj.Ptr]), "", 0)), heap, NoErr))

\* GENERIC-DEL: the key is popped, the map stays in its slot
MapDel(stack, heap) ==
  LET key == stack[Len(stack)]
      obj == stack[Len(stack) - 1]
  IN IF obj.Type # "ValMap" THEN {Outcome(stack, heap, Err("not a map", ""))}
     ELSE LET m == heap[obj.Ptr]
              m2 == [x \in DOMAIN m \ {key.Str} |-> m[x]]
          IN KeyOutcomes(key, stack, heap, Outcome(Pop(stack, 1), [heap EXCEPT ![obj.Ptr] = m2], NoErr))

\* GENERIC-SET: value on top, key beneath, the map beneath the key; value
\* and key are popped, the map stays in its slot
MapSet(stack, heap) ==
  LET val == stack[Len(stack)]
      key == stack[Len(stack) - 1]
      obj == stack[Len(stack) - 2]
  IN IF obj.Type # "ValMap" THEN {Outcome(stack, heap, Err("not a map", ""))}
     ELSE LET m == heap[obj.Ptr]
              m2 == [x \in DOMAIN m \cup {key.Str} |-> IF x = key.Str THEN ToInterface(val) ELSE m[x]]
          IN KeyOutcomes(key, stack, heap, Outcome(Pop(stack, 2), [heap EXCEPT ![obj.Ptr] = m2], NoErr))

\* opcode of either instruction set, without the set's prefix
BaseOp(op) ==
  CASE op \in {"NeoOpGetGlobal", "OpGetGlobal"} -> "GetGlobal"
    [] op \in {"NeoOpPush", "OpPush"} -> "Push"
    [] op \in {"NeoOpMapGetConst", "OpMapGetConst"} -> "MapGetConst"
    [] op \in {"NeoOpMapGet", "OpMapGet"} -> "MapGet"
    [] op \in {"NeoOpMapSet", "OpMapSet"} -> "MapSet"
    [] op \in {"NeoOpMapHas", "OpMapHas"} -> "MapHas"
    [] op \in {"NeoOpMapDel", "OpMapDel"} -> "MapDel"
    [] OTHER -> "?"

\* ================================================================ state
VARIABLES
  stmt,      \* AST of the expression being compiled (NoNode: none)
  neo,       \* NeoCompiler: toks, pos (curToken), instructions, constants, err
  left,      \* NeoCompiler: compilationValue of the expression parsed so far
  vmc,       \* VMCompiler: instructions, constants, err
  phase,     \* position of the compilation
  nstmts,    \* expressions compiled so far
  machine,   \* the VM loop that executes: "neoex_vm" or "vm"
  globals,   \* bound variables, by name
  heap,      \* the maps that Map values own, by Ptr
  stack,     \* runtime stack, top last (stack[sp])
  ip,        \* program counter, from 1
  verr,      \* runtime error
  vphase     \* "off", "run", "halt" or "error"

cvars == <<stmt, neo, left, vmc, phase, nstmts>>

mvars == <<machine, globals, heap, stack, ip, verr, vphase>>

vars == <<stmt, neo, left, vmc, phase, nstmts, machine, globals, heap, stack, ip, verr, vphase>>

EmptyMap == [x \in {} |-> NilAny]

Init ==
  /\ stmt = NoNode
  /\ neo = NewCompiler(<<>>)
  /\ left = StackCV
  /\ vmc = NewVMCompiler
  /\ phase = "idle"
  /\ nstmts = 0
  /\ machine = "neoex_vm"
  /\ globals = [m |-> ZeroValue, k |-> ZeroValue]
  /\ heap = [r \in {1} |-> EmptyMap]
  /\ stack = <<>>
  /\ ip = 1
  /\ verr = NoErr
  /\ vphase = "off"

\* the next expression of the program reaches both compilers
BeginStatement ==
  /\ phase = "idle"
  /\ nstmts < MaxStmts
  /\ \E src \in Sources :
       /\ stmt' = src.ast
       /\ neo' = [neo EXCEPT !.toks = src.toks, !.pos = 1]
       /\ phase' = IF src.ast = NoNode THEN "prefix" ELSE "walk"
  /\ UNCHANGED <<left, vmc, nstmts>>
  /\ UNCHANGED mvars

\* VMCompiler: c.walk(stmt)
WalkStatement ==
  /\ phase = "walk"
  /\ vmc' = walk(vmc, stmt)
  /\ phase' = "prefix"
  /\ UNCHANGED <<stmt, neo, left, nstmts>>
  /\ UNCHANGED mvars

\* NeoCompiler: prefix parse of the expression
ParsePrefix ==
  /\ phase = "prefix"
  /\ LET r == parsePrefix(neo) IN
       /\ neo' = r.c
       /\ left' = r.val
       /\ phase' = IF Failed(r) THEN "failed" ELSE "infix"
  /\ UNCHANGED <<stmt, vmc, nstmts>>
  /\ UNCHANGED mvars

\* NeoCompiler: '.' follows, it becomes curToken
InfixDot ==
  /\ phase = "infix"
  /\ peekToken(neo).Type = "DOT"
  /\ neo' = nextToken(neo)
  /\ phase' = "member"
  /\ UNCHANGED <<stmt, left, vmc, nstmts>>
  /\ UNCHANGED mvars

\* NeoCompiler: parseMemberCallExpression(left)
MemberCall ==
  /\ phase = "member"
  /\ LET r == parseMemberCallExpression(neo, left) IN
       /\ neo' = r.c
       /\ left' = r.val
       /\ phase' = IF Failed(r) THEN "failed" ELSE "infix"
  /\ UNCHANGED <<stmt, vmc, nstmts>>
  /\ UNCHANGED mvars

\* the expression is complete; an error of either compiler aborts
EndStatement ==
  /\ phase = "infix"
  /\ peekToken(neo).Type # "DOT"
  /\ IF peekToken(neo).Type # "EOF"
     THEN /\ neo' = [neo EXCEPT !.err = Err("unexpected token", peekToken(neo).Type)]
          /\ phase' = "failed"
          /\ UNCHANGED <<stmt, left, nstmts>>
     ELSE /\ neo' = [neo EXCEPT !.toks = <<>>, !.pos = 1]
          /\ phase' = IF vmc.err # NoErr THEN "failed" ELSE "idle"
          /\ stmt' = NoNode
          /\ left' = StackCV
          /\ nstmts' = nstmts + 1
  /\ UNCHANGED vmc
  /\ UNCHANGED mvars

Next == BeginStatement \/ WalkStatement \/ ParsePrefix \/ InfixDot \/ MemberCall \/ EndStatement

Spec == Init /\ [][Next]_vars

\* ============================================================ execution
\* one whole compilation of a program, as the actions above perform it
RECURSIVE CompileNeo(_, _)
CompileNeo(c, srcs) ==
  IF srcs = <<>> \/ c.err # NoErr THEN c
  ELSE LET r == parseExpression([c EXCEPT !.toks = srcs[1].toks, !.pos = 1])
       IN IF Failed(r) THEN r.c
          ELSE IF peekToken(r.c).Type # "EOF" THEN [r.c EXCEPT !.err = Err("unexpected token", peekToken(r.c).Type)]
          ELSE CompileNeo([r.c EXCEPT !.toks = <<>>, !.pos = 1], Tail(srcs))

CompileVM(srcs) == walkAll(NewVMCompiler, [i \in 1..Len(srcs) |-> srcs[i].ast])

\* only what a compiler accepted reaches its VM
Runnable == {src \in Sources : src.ast # NoNode /\ (CompileNeo(NewCompiler(<<>>), <<src>>).err = NoErr \/ CompileVM(<<src>>).err = NoErr)}

Programs == SeqsUpTo(Runnable, MaxRun) \ {<<>>}

StoredValues == {AnyInt64(-1), AnyInt(2), AnyFloat64(FALSE, 0, 8), AnyString("v"), AnyBool(TRUE), NilAny, AnyOther}

HeapMaps == {EmptyMap} \cup {[x \in {"K"} |-> v] : v \in StoredValues}

MapRef(ptr) == Value("ValMap", ZeroNum, "", ptr)

\* bindings of m and k, and the content of the map m may own
Configs ==
  {[m |-> MapRef(1), k |-> kv, map |-> hm] : kv \in {StringValue("K"), IntValue(1)}, hm \in HeapMaps}
    \cup {[m |-> mv, k |-> StringValue("K"), map |-> EmptyMap] : mv \in {IntValue(7), ZeroValue}}

\* memory contents an out-of-pool read may meet
AnyStr == {"", "K", "J"}

Code == IF machine = "neoex_vm" THEN neo.instructions ELSE vmc.instructions

Pool == IF machine = "neoex_vm" THEN neo.constants ELSE vmc.constants

\* a compiled program is handed to its VM with a fresh stack
VMInit ==
  /\ \E prog \in Programs :
       /\ neo = CompileNeo(NewCompiler(<<>>), prog)
       /\ vmc = CompileVM(prog)
       /\ nstmts = Len(prog)
  /\ \E mach \in {"neoex_vm", "vm"}, cfg \in Configs :
       /\ machine = mach
       /\ (IF mach = "neoex_vm" THEN neo.err ELSE vmc.err) = NoErr
       /\ globals = [m |-> cfg.m, k |-> cfg.k]
       /\ heap = [r \in {1} |-> cfg.map]
  /\ stmt = NoNode
  /\ left = StackCV
  /\ phase = "idle"
  /\ stack = <<>>
  /\ ip = 1
  /\ verr = NoErr
  /\ vphase = "run"

At(op) == vphase = "run" /\ ip \in 1..Len(Code) /\ BaseOp(Code[ip].Op) = op

\* a handler returns: the loop goes on, or the execution ends in the error
Return(o) ==
  /\ stack' = o.stack
  /\ heap' = o.heap
  /\ verr' = o.err
  /\ vphase' = IF o.err # NoErr THEN "error" ELSE "run"
  /\ ip' = IF o.err # NoErr THEN ip ELSE ip + 1
  /\ UNCHANGED <<machine, globals>>
  /\ UNCHANGED cvars

ExecGetGlobal ==
  /\ At("GetGlobal")
  /\ Return(Outcome(Push(stack, globals[Pool[Code[ip].Arg + 1].Str]), heap, NoErr))

ExecPush ==
  /\ At("Push")
  /\ Return(Outcome(Push(stack, Pool[Code[ip].Arg + 1]), heap, NoErr))

ExecMapGetConst ==
  /\ At("MapGetConst")
  /\ \E o \in (IF machine = "neoex_vm" THEN NeoMapGetConst(stack, heap, Pool, Code[ip].Arg, AnyStr)
                ELSE OpMapGetConst(stack, heap, Pool, Code[ip].Arg)) : Return(o)

ExecMapGet ==
  /\ At("MapGet")
  /\ \E o \in MapGet(stack, heap) : Return(o)

ExecMapSet ==
  /\ At("MapSet")
  /\ \E o \in MapSet(stack, heap) : Return(o)

ExecMapHas ==
  /\ At("MapHas")
  /\ \E o \in MapHas(stack, heap) : Return(o)

ExecMapDel ==
  /\ At("MapDel")
  /\ \E o \in MapDel(stack, heap) : Return(o)

Halt ==
  /\ vphase = "run"
  /\ ip > Len(Code)
  /\ vphase' = "halt"
  /\ UNCHANGED <<machine, globals, heap, stack, ip, verr>>
  /\ UNCHANGED cvars

VMNext == ExecGetGlobal \/ ExecPush \/ ExecMapGetConst \/ ExecMapGet \/ ExecMapSet \/ ExecMapHas \/ ExecMapDel \/ Halt

VMSpec == VMInit /\ [][VMNext]_vars

\* ================================================== properties, compiler
IsCall(n) == n.kind = "MemberCallExpression"

\* the member call that parseMemberCallExpression is entered for
CurrentCall == IF IsCall(stmt) /\ IsCall(stmt.obj[1]) /\ neo.pos = 2 THEN stmt.obj[1] ELSE stmt

OnIdentifier(n) == IsCall(n) /\ n.obj[1].kind = "Identifier"

\* what the step appended to the NeoCompiler's instruction buffer
Emitted == SubSeq(neo'.instructions, Len(neo.instructions) + 1, Len(neo'.instructions))

ConstOps == {"NeoOpPush", "NeoOpGetGlobal", "NeoOpMapGetConst", "OpPush", "OpGetGlobal", "OpMapGetConst"}

\* an instruction sequence with each pool operand replaced by its slot
Decoded(ins, consts) ==
  [i \in 1..Len(ins) |-> [Op |-> BaseOp(ins[i].Op),
                          K |-> IF ins[i].Op \in ConstOps /\ ins[i].Arg \in 0..(Len(consts) - 1) THEN consts[ins[i].Arg + 1] ELSE ZeroValue]]

D(op, k) == [Op |-> op, K |-> k]

\* the instructions that leave an argument's value on the stack
Materialized(a) ==
  CASE a.kind = "StringLiteral" -> <<D("Push", StringValue(a.lit))>>
    [] a.kind = "NumberLiteral" -> <<D("Push", IntValue(IF a.lit = "1" THEN 1 ELSE 2))>>
    [] a.kind = "Identifier" -> <<D("GetGlobal", StringValue(a.lit))>>
    [] OTHER -> <<D("GetGlobal", StringValue(a.obj[1].lit)), D("MapGetConst", StringValue(a.args[1].lit))>>

RECURSIVE MaterializedAll(_)
MaterializedAll(args) == IF args = <<>> THEN <<>> ELSE Materialized(args[1]) \o MaterializedAll(Tail(args))

MapOps == {"MapGetConst", "MapGet", "MapSet", "MapHas", "MapDel"}

CountOps(dec, ops) == Cardinality({i \in 1..Len(dec) : dec[i].Op \in ops})

GenericOf(method) == CASE method = "get" -> "MapGet" [] method = "set" -> "MapSet" [] method = "has" -> "MapHas" [] OTHER -> "MapDel"

\* the NeoCompiler enters the call and its subject passes both checks
EntersCall == phase = "member" /\ OnIdentifier(CurrentCall) /\ IsCall(stmt)

LiteralGet(n) == OnIdentifier(n) /\ n.lit = "get" /\ Len(n.args) = 1 /\ n.args[1].kind = "StringLiteral"

\* C1: compiling m.get("K") appends exactly one instruction, GET-BY-CONST,
\* whose operand is the index addConstant returned for a new slot equal to
\* "K": no GENERIC-GET and no push of the key, in either compiler.
C1_LiteralGetIsOneGetByConst ==
  [][ /\ (EntersCall /\ LiteralGet(CurrentCall)) =>
          /\ neo'.err = NoErr
          /\ neo'.constants = Append(neo.constants, StringValue(CurrentCall.args[1].lit))
          /\ neo'.instructions = Append(neo.instructions, Instruction("NeoOpMapGetConst", Len(neo.constants)))
      /\ (phase = "walk" /\ LiteralGet(stmt)) =>
          /\ vmc'.err = NoErr
          /\ vmc'.constants = vmc.constants \o <<StringValue(stmt.obj[1].lit), StringValue(stmt.args[1].lit)>>
          /\ vmc'.instructions = vmc.instructions \o <<Instruction("OpGetGlobal", Len(vmc.constants)), Instruction("OpMapGetConst", Len(vmc.constants) + 1)>>
    ]_vars

C1_Witness ==
  /\ phase = "infix" /\ LiteralGet(stmt) /\ neo.err = NoErr /\ vmc.err = NoErr
  /\ neo.instructions[Len(neo.instructions)].Op = "NeoOpMapGetConst"
  /\ vmc.instructions[Len(vmc.instructions)].Op = "OpMapGetConst"

\* C2: an accepted set, has or del call appends the materialization of
\* each argument once, in source order, then exactly one generic opcode;
\* it appends no GET-BY-CONST of its own.
C2_SetHasDelGeneric ==
  [][ (EntersCall /\ CurrentCall.lit \in {"set", "has", "del"} /\ neo'.err = NoErr) =>
        LET dec == Decoded(Emitted, neo'.constants) IN
          /\ dec = MaterializedAll(CurrentCall.args) \o <<D(GenericOf(CurrentCall.lit), ZeroValue)>>
          /\ CountOps(dec, MapOps \ {"MapGetConst"}) = 1
          /\ CountOps(dec, {"MapGetConst"}) = Cardinality({i \in 1..Len(CurrentCall.args) : IsCall(CurrentCall.args[i])})
    ]_vars

C2_Witness ==
  /\ phase = "infix" /\ OnIdentifier(stmt) /\ stmt.lit = "set" /\ neo.err = NoErr
  /\ Len(stmt.args) = 2
  /\ stmt.args[1].kind = "StringLiteral" /\ stmt.args[2].kind = "StringLiteral"
  /\ neo.instructions[Len(neo.instructions)].Op = "NeoOpMapSet"

\* C3: get with one argument that is not a compile-time String constant
\* appends the instructions that put the key on the stack (a push for a
\* constant of another type), then exactly one GENERIC-GET, and no
\* GET-BY-CONST for the call.
C3_NonLiteralGetGeneric ==
  [][ (EntersCall /\ CurrentCall.lit = "get" /\ Len(CurrentCall.args) = 1 /\ CurrentCall.args[1].kind # "StringLiteral") =>
        LET dec == Decoded(Emitted, neo'.constants) IN
          /\ neo'.err = NoErr
          /\ dec = Materialized(CurrentCall.args[1]) \o <<D("MapGet", ZeroValue)>>
          /\ CountOps(dec, {"MapGet"}) = 1
          /\ dec[Len(dec)].Op = "MapGet"
    ]_vars

C3_Witness ==
  /\ phase = "infix" /\ OnIdentifier(stmt) /\ stmt.lit = "get" /\ neo.err = NoErr
  /\ Len(stmt.args) = 1 /\ stmt.args[1].kind = "NumberLiteral"
  /\ neo.instructions[Len(neo.instructions)].Op = "NeoOpMapGet"

Arity(method) == IF method = "set" THEN 2 ELSE 1

ArityMessage(method) ==
  CASE method = "get" -> "get expects 1 argument"
    [] method = "set" -> "set expects 2 arguments"
    [] method = "has" -> "has expects 1 argument"
    [] OTHER -> "del expects 1 argument"

\* C4: a well-formed call on a valid subject compiles iff the method is
\* get, set, has or del and the argument count is its arity; otherwise
\* the error names the method (and its arity) and the call appends no
\* map opcode of its own.
C4_MethodAndArity ==
  [][ EntersCall =>
        LET n == CurrentCall
            known == n.lit \in {"get", "set", "has", "del"}
            dec == Decoded(Emitted, neo'.constants)
        IN /\ (neo'.err = NoErr) <=> (known /\ Len(n.args) = Arity(n.lit))
           /\ (known /\ Len(n.args) # Arity(n.lit)) => neo'.err = Err(ArityMessage(n.lit), "")
           /\ ~known => neo'.err = Err("unknown map method: %s", n.lit)
           /\ neo'.err # NoErr =>
                /\ phase' = "failed"
                /\ CountOps(dec, MapOps) = Cardinality({i \in 1..Len(n.args) : IsCall(n.args[i])})
                /\ dec = SubSeq(MaterializedAll(n.args), 1, Len(dec))
    ]_vars

C4_Witness ==
  /\ phase = "failed" /\ OnIdentifier(stmt) /\ stmt.lit = "get" /\ Len(stmt.args) = 2
  /\ neo.err = Err("get expects 1 argument", "")

\* C5: a member call whose subject is a literal or a call result fails
\* with the subject error before a token is consumed or anything is
\* appended; a call gets past the check only on a non-constant subject
\* whose load (get-global) is the last instruction emitted.
C5_SubjectCheck ==
  [][ (phase = "member" /\ IsCall(stmt)) =>
        /\ ~OnIdentifier(CurrentCall) =>
             /\ neo'.err = Err(ErrSubject, "")
             /\ neo'.pos = neo.pos
             /\ neo'.instructions = neo.instructions
             /\ neo'.constants = neo.constants
        /\ neo'.err # Err(ErrSubject, "") =>
             /\ ~left.isConst
             /\ neo.instructions[Len(neo.instructions)].Op = "NeoOpGetGlobal"
             /\ OnIdentifier(CurrentCall)
             /\ neo'.pos > neo.pos
    ]_vars

C5_Witness ==
  /\ phase = "failed" /\ IsCall(stmt) /\ IsCall(stmt.obj[1])
  /\ neo.err = Err(ErrSubject, "")
  /\ neo.instructions[Len(neo.instructions)].Op = "NeoOpMapGetConst"

PrefixOf(a, b) == Len(a) <= Len(b) /\ SubSeq(b, 1, Len(a)) = a

HeapOf(cfg) == [r \in {1} |-> cfg.map]

\* what an outcome lets the program observe
Obs(o) == IF o.err # NoErr THEN [failed |-> TRUE, stack |-> <<>>, heap |-> o.heap] ELSE [failed |-> FALSE, stack |-> o.stack, heap |-> o.heap]

GetConstOps == {"NeoOpMapGetConst", "OpMapGetConst"}

PoolValid(c) ==
  \A i \in 1..Len(c.instructions) :
    c.instructions[i].Op \in GetConstOps =>
      /\ c.instructions[i].Arg \in 0..(Len(c.constants) - 1)
      /\ c.constants[c.instructions[i].Arg + 1].Type = "ValString"

C9_PoolValid == PoolValid(neo) /\ PoolValid(vmc)

C9_AppendOnly ==
  /\ PrefixOf(neo.constants, neo'.constants)
  /\ PrefixOf(vmc.constants, vmc'.constants)
  /\ (EntersCall /\ LiteralGet(CurrentCall)) =>
       /\ Len(neo'.constants) = Len(neo.constants) + 1
       /\ neo'.instructions[Len(neo'.instructions)].Arg = Len(neo.constants)

\* C9: every GET-BY-CONST in the buffer indexes an existing pool slot that
\* holds a String; the pool only grows by appending, a slot never changes,
\* and a literal get always takes a new slot (no deduplication).
C9_PoolIndices == []C9_PoolValid /\ [][C9_AppendOnly]_vars

C9_Witness ==
  /\ phase = "idle" /\ nstmts = 2 /\ Len(neo.instructions) = 4
  /\ neo.instructions[2].Op = "NeoOpMapGetConst" /\ neo.instructions[4].Op = "NeoOpMapGetConst"
  /\ neo.instructions[2].Arg # neo.instructions[4].Arg
  /\ neo.constants[neo.instructions[2].Arg + 1] = StringValue("K")
  /\ neo.constants[neo.instructions[4].Arg + 1] = StringValue("K")

\* ================================================= properties, execution
Top == stack[Len(stack)]

AtMapOp == vphase = "run" /\ ip \in 1..Len(Code) /\ BaseOp(Code[ip].Op) \in MapOps

Max16 == 2^16 - 1

\* the tagged Value a stored value of the five plain types reads as
TaggedAs(v, any) ==
  CASE any.go \in {"int64", "int"} -> /\ v.Type = "ValInt"
                                       /\ v.Num = (IF any.i >= 0 THEN <<0, 0, 0, any.i>> ELSE <<Max16, Max16, Max16, Max16 + 1 + any.i>>)
    [] any.go = "float64" -> v.Type = "ValFloat" /\ v.Num[1] = 16 * (any.f.exp + 1023) + any.f.frac /\ ~any.f.neg
    [] any.go = "string" -> v.Type = "ValString" /\ v.Str = any.s
    [] any.go = "bool" -> v.Type = "ValBool" /\ v.Num = <<0, 0, 0, IF any.b THEN 1 ELSE 0>>
    [] any.go = "nil" -> v.Type = "ValNil"
    [] OTHER -> TRUE

\* C6: GET-BY-CONST on a Map never fails: a missing key reads as Nil, a
\* present one as the tagged form of the stored value; only the top slot
\* is rewritten, the height, the map and the pool stay as they were.
C6_GetByConstTotal ==
  [][ (At("MapGetConst") /\ Top.Type = "ValMap") =>
        LET key == Pool[Code[ip].Arg + 1].Str
            m == heap[Top.Ptr]
        IN /\ verr' = NoErr /\ vphase' = "run" /\ ip' = ip + 1
           /\ Len(stack') = Len(stack)
           /\ Pop(stack', 1) = Pop(stack, 1)
           /\ heap' = heap /\ neo' = neo /\ vmc' = vmc
           /\ key \notin DOMAIN m => stack'[Len(stack')] = Value("ValNil", <<0, 0, 0, 0>>, "", 0)
           /\ key \in DOMAIN m => TaggedAs(stack'[Len(stack')], m[key])
    ]_vars

C6_Witness ==
  /\ vphase = "run" /\ ip = 3 /\ Len(Code) = 2 /\ BaseOp(Code[2].Op) = "MapGetConst"
  /\ verr = NoErr /\ globals.m.Type = "ValMap"
  /\ heap[1] = EmptyMap
  /\ stack = <<ZeroValue>>

\* the slot a map opcode expects the map in
MapOperand ==
  CASE BaseOp(Code[ip].Op) = "MapGetConst" -> stack[Len(stack)]
    [] BaseOp(Code[ip].Op) = "MapSet" -> stack[Len(stack) - 2]
    [] OTHER -> stack[Len(stack) - 1]

NotMapMessages == {"MGETC: not a map", "not a map"}

C10_FastPathEquivalent ==
  At("MapGetConst") =>
    LET K == Pool[Code[ip].Arg + 1]
        fast == IF machine = "neoex_vm" THEN NeoMapGetConst(stack, heap, Pool, Code[ip].Arg, AnyStr)
                ELSE OpMapGetConst(stack, heap, Pool, Code[ip].Arg)
    IN /\ K.Type = "ValString"
       /\ {Obs(o) : o \in fast} = {Obs(o) : o \in MapGet(Push(stack, K), heap)}

C10_Witness ==
  /\ At("MapGetConst") /\ machine = "neoex_vm" /\ Top.Type = "ValMap"
  /\ Pool[Code[ip].Arg + 1].Str \in DOMAIN heap[Top.Ptr]
  /\ heap[Top.Ptr][Pool[Code[ip].Arg + 1].Str].go = "bool"

====
